---- MODULE Spec2Model ----
(***************************************************************************)
(* Model of deedles.dev/ximage/xcursor: the Xcursor decoder (decoder.go),  *)
(* the size selector (Cursor.BestSize) and the theme resolver (theme.go).  *)
(* Three specifications share the module:                                   *)
(*   SpecBest    one BestSize call, the map iterated in any order           *)
(*   SpecDecode  one Decode call on a byte stream                           *)
(*   SpecTheme   one LoadTheme / LoadThemeFromDir call on a file system     *)
(* Each specification leaves the variables of the other two at their idle   *)
(* values.                                                                  *)
(***************************************************************************)
EXTENDS Integers, Sequences, FiniteSets, TLC

VARIABLES
    bs,       \* the running BestSize call
    file,     \* the bytes of the stream handed to Decode
    seekable, \* whether the stream implements io.Seeker
    layout,   \* ghost: the sections the stream was synthesised from
    fault,    \* ghost: the damage done to the synthesised stream
    d,        \* the decoder struct and the locals of decoder.Decode
    fs,       \* the part of the file system the theme load has looked at
    th,       \* the running LoadTheme / LoadThemeFromDir call
    first,    \* ghost: what an earlier Decode of the same stream returned
    px        \* one pixel written and read back through ARGB8888

vars == <<bs, file, seekable, layout, fault, d, fs, th, first, px>>

NIL == "nil"

Min(a, b) == IF a < b THEN a ELSE b

\* x := e; body: the value e bound once to the local of F.
With(e, F(_)) == F(e)

-----------------------------------------------------------------------------
(* Size selector: decoder.go, Cursor.BestSize / betterSize / dist.          *)

\* The nominal sizes a cursor may hold as keys of Cursor.Images.
SizeUniverse == {8, 16, 32, 48}

\* Largest target size asked for.
MaxTarget == 56

Targets == 0..MaxTarget

dist(a, b) == IF a < b THEN b - a ELSE a - b

betterSize(target, a, b) ==
    LET da == dist(target, a)
        db == dist(target, b)
    IN  IF da < db THEN a
        ELSE IF db < da THEN b
        ELSE IF a > b THEN a ELSE b

BsIdle == [pc |-> "idle", sizes |-> {}, target |-> 0, todo |-> {}, best |-> 0]

\* `best` is the named result: it starts as the zero value of int.
BestSizeCall(sizes, target) ==
    [pc |-> "range", sizes |-> sizes, target |-> target, todo |-> sizes, best |-> 0]

BestInit ==
    \E sizes \in SUBSET SizeUniverse, target \in Targets :
        bs = BestSizeCall(sizes, target)

\* One iteration of `for s := range c.Images`: Go fixes no order.
BestSizeStep ==
    /\ bs.pc = "range"
    /\ \E s \in bs.todo :
        bs' = [bs EXCEPT !.best = betterSize(bs.target, bs.best, s),
                         !.todo = bs.todo \ {s}]
    /\ UNCHANGED <<file, seekable, layout, fault, d, fs, th, first, px>>

BestSizeReturn ==
    /\ bs.pc = "range"
    /\ bs.todo = {}
    /\ bs' = [bs EXCEPT !.pc = "done"]
    /\ UNCHANGED <<file, seekable, layout, fault, d, fs, th, first, px>>

\* C3 as claimed: for a cursor with at least one size, BestSize returns a
\* key of Images, no key is strictly closer to the target, and of two keys
\* equally close the larger is returned (so the order of iteration cannot
\* matter).
C3_BestSizeIsClosestKey ==
    (bs.pc = "done" /\ bs.sizes # {}) =>
        /\ bs.best \in bs.sizes
        /\ \A s \in bs.sizes :
            /\ dist(bs.target, s) >= dist(bs.target, bs.best)
            /\ dist(bs.target, s) = dist(bs.target, bs.best) => s <= bs.best

-----------------------------------------------------------------------------
(* Byte streams and 32-bit words.  A uint32 is kept as the four bytes       *)
(* binary.LittleEndian lays it out in, least significant first; the word    *)
(* constants of decoder.go are written the same way.                        *)

Byte == 0..255

\* 0x72756358, ASCII "Xcur"
fileMagic == <<88, 99, 117, 114>>

\* 0xfffe0001
tocTypeComment == <<1, 0, 254, 255>>

\* 0xfffd0002
tocTypeImage == <<2, 0, 253, 255>>

\* int(v) for a uint32 v (64-bit int: no wrap).
ToInt(w) == w[1] + 256 * w[2] + 65536 * w[3] + 16777216 * w[4]

Bytes4(v) ==
    <<v % 256, (v \div 256) % 256, (v \div 65536) % 256, (v \div 16777216) % 256>>

\* a * b on uint32: the product modulo 2^32, column by column.
MulU32(a, b) ==
    LET s0 == a[1] * b[1]
        s1 == a[1] * b[2] + a[2] * b[1] + (s0 \div 256)
        s2 == a[1] * b[3] + a[2] * b[2] + a[3] * b[1] + (s1 \div 256)
        s3 == a[1] * b[4] + a[2] * b[3] + a[3] * b[2] + a[4] * b[1] + (s2 \div 256)
    IN  <<s0 % 256, s1 % 256, s2 % 256, s3 % 256>>

\* len(b.buf) of the bufio.Reader: bufio's default is 4096 and its minimum
\* 16; the model runs the reader at a small size so that short streams
\* exercise refills and real seeks.
BufSize == 16

-----------------------------------------------------------------------------
(* The reader under the decoder: r = [n, upos, buffered].                   *)
(*   n         decoder.n, the bytes the decoder has consumed                *)
(*   upos      the offset of the underlying stream                          *)
(*   buffered  br.Buffered(): bytes read from the stream, not yet consumed; *)
(*             they are the `buffered` bytes that end at offset upos        *)

Avail(f, upos) == IF Len(f) > upos THEN Len(f) - upos ELSE 0

\* bufio.Reader.Read(p) with len(p) = k > 0 over stream f.
brRead(f, r, k) ==
    IF r.buffered = 0
    THEN IF k >= BufSize
         THEN \* large read, empty buffer: read directly into p
              LET got == Min(k, Avail(f, r.upos))
              IN  IF got = 0
                  THEN [r |-> r, n |-> 0, data |-> <<>>, err |-> "EOF"]
                  ELSE [r |-> [r EXCEPT !.upos = r.upos + got], n |-> got,
                        data |-> SubSeq(f, r.upos + 1, r.upos + got), err |-> NIL]
         ELSE \* one read into the buffer, then copy
              LET got == Min(BufSize, Avail(f, r.upos))
                  c == Min(k, got)
              IN  IF got = 0
                  THEN [r |-> r, n |-> 0, data |-> <<>>, err |-> "EOF"]
                  ELSE [r |-> [r EXCEPT !.upos = r.upos + got, !.buffered = got - c],
                        n |-> c, data |-> SubSeq(f, r.upos + 1, r.upos + c), err |-> NIL]
    ELSE LET c == Min(k, r.buffered)
             at == r.upos - r.buffered
         IN  [r |-> [r EXCEPT !.buffered = r.buffered - c], n |-> c,
              data |-> SubSeq(f, at + 1, at + c), err |-> NIL]

\* decoder.Read: throw on error, then d.n += n.
decoderRead(f, r, k) ==
    With(brRead(f, r, k), LAMBDA res :
        IF res.err # NIL
        THEN res
        ELSE [res EXCEPT !.r = [res.r EXCEPT !.n = res.r.n + res.n]])

\* io.ReadFull(d, buf) with len(buf) = k, and io.CopyN(&buf, d, k) for k below
\* io.Copy's 32 KiB chunk: decoder.Read is called for the bytes still missing
\* until there are none; a failing read throws.
RECURSIVE ReadFull(_, _, _)
ReadFull(f, r, k) ==
    IF k = 0
    THEN [r |-> r, data |-> <<>>, err |-> NIL]
    ELSE With(decoderRead(f, r, k), LAMBDA res :
             IF res.err # NIL
             THEN [r |-> res.r, data |-> <<>>, err |-> res.err]
             ELSE With(ReadFull(f, res.r, k - res.n), LAMBDA rest :
                    [r |-> rest.r, data |-> res.data \o rest.data, err |-> rest.err]))

\* decoder.uint32: binary.Read of four little-endian bytes.
uint32(f, r) == ReadFull(f, r, 4)

\* bufio.Reader.Discard(k), k > 0: [r, disc, err].
RECURSIVE brDiscard(_, _, _, _)
brDiscard(f, r, remain, done) ==
    LET got == IF r.buffered = 0 THEN Min(BufSize, Avail(f, r.upos)) ELSE 0
        filled == [r EXCEPT !.upos = r.upos + got, !.buffered = r.buffered + got]
        skip == Min(filled.buffered, remain)
        after == [filled EXCEPT !.buffered = filled.buffered - skip]
    IN  IF remain - skip = 0
        THEN [r |-> after, disc |-> done + skip, err |-> NIL]
        ELSE IF r.buffered = 0 /\ got = 0
        THEN [r |-> after, disc |-> done + skip, err |-> "EOF"]
        ELSE brDiscard(f, after, remain - skip, done + skip)

\* decoder.Discard: throw on error, then d.n += disc.
decoderDiscard(f, r, k) ==
    With(brDiscard(f, r, k, 0), LAMBDA res :
        IF res.err # NIL
        THEN [r |-> res.r, err |-> res.err, panic |-> FALSE]
        ELSE [r |-> [res.r EXCEPT !.n = res.r.n + res.disc], err |-> NIL, panic |-> FALSE])

\* SeekTo without its guard against a backward target: the stream is
\* repositioned instead (mutant of SeekTo).
SeekTo_Rewinds(f, canSeek, r, target) ==
    LET diff == target - r.n
    IN  IF diff = 0
        THEN [r |-> r, err |-> NIL, panic |-> FALSE]
        ELSE IF diff > 0 /\ (~canSeek \/ diff <= r.buffered)
        THEN decoderDiscard(f, r, diff)
        ELSE [r |-> [n |-> target, upos |-> target, buffered |-> 0],
              err |-> NIL, panic |-> FALSE]

\* SeekTo that issues the real seek without resetting the buffered reader:
\* the bytes buffered before the seek stay in front (mutant of SeekTo).
SeekTo_KeepsBuffer(f, canSeek, r, target) ==
    LET diff == target - r.n
    IN  IF diff < 0
        THEN [r |-> r, err |-> NIL, panic |-> TRUE]
        ELSE IF diff = 0
        THEN [r |-> r, err |-> NIL, panic |-> FALSE]
        ELSE IF ~canSeek \/ diff <= r.buffered
        THEN decoderDiscard(f, r, diff)
        ELSE [r |-> [n |-> target, upos |-> target, buffered |-> r.buffered],
              err |-> NIL, panic |-> FALSE]

\* SeekTo whose real seek moves the source by the gap from where the source
\* stands, io.SeekCurrent, instead of to the target from the start: the
\* bytes the buffered reader had read ahead are skipped as well (mutant of
\* SeekTo).
SeekTo_FromCurrent(f, canSeek, r, target) ==
    LET diff == target - r.n
    IN  IF diff < 0
        THEN [r |-> r, err |-> NIL, panic |-> TRUE]
        ELSE IF diff = 0
        THEN [r |-> r, err |-> NIL, panic |-> FALSE]
        ELSE IF ~canSeek \/ diff <= r.buffered
        THEN decoderDiscard(f, r, diff)
        ELSE [r |-> [n |-> target, upos |-> r.upos + diff, buffered |-> 0],
              err |-> NIL, panic |-> FALSE]

\* decoder.SeekTo(target): [r, err, panic].
SeekTo(f, canSeek, r, target) ==
    LET diff == target - r.n
    IN  IF diff < 0
        THEN [r |-> r, err |-> NIL, panic |-> TRUE]
        ELSE IF diff = 0
        THEN [r |-> r, err |-> NIL, panic |-> FALSE]
        ELSE IF ~canSeek \/ diff <= r.buffered
        THEN decoderDiscard(f, r, diff)
        ELSE \* s.Seek(n, io.SeekStart); d.br.Reset(d.r); d.n = n
             [r |-> [n |-> target, upos |-> target, buffered |-> 0],
              err |-> NIL, panic |-> FALSE]

-----------------------------------------------------------------------------
(* decoder.go: header, tocHeader, comment, image.  A throw is an err field  *)
(* that ends the operator at once, as the panic ends the Go function.       *)

\* k consecutive d.uint32() calls: [r, words, err].
RECURSIVE ReadWords(_, _, _)
ReadWords(f, r, k) ==
    IF k = 0
    THEN [r |-> r, words |-> <<>>, err |-> NIL]
    ELSE With(uint32(f, r), LAMBDA w :
             IF w.err # NIL
             THEN [r |-> w.r, words |-> <<>>, err |-> w.err]
             ELSE With(ReadWords(f, w.r, k - 1), LAMBDA rest :
                    [r |-> rest.r, words |-> <<w.data>> \o rest.words, err |-> rest.err]))

\* The loop of decoder.header: `for range ntoc` appending one fileToc each.
RECURSIVE ReadTocs(_, _, _)
ReadTocs(f, r, ntoc) ==
    IF ntoc = 0
    THEN [r |-> r, tocs |-> <<>>, err |-> NIL]
    ELSE With(ReadWords(f, r, 3), LAMBDA w :
             IF w.err # NIL
             THEN [r |-> w.r, tocs |-> <<>>, err |-> w.err]
             ELSE With(ReadTocs(f, w.r, ntoc - 1), LAMBDA rest :
                    [r |-> rest.r, err |-> rest.err,
                     tocs |-> <<[Type |-> w.words[1], Subtype |-> w.words[2],
                                 Position |-> w.words[3]]>> \o rest.tocs]))

\* header that reads on whatever the magic is (mutant of header).
header_NoMagicCheck(f, r) ==
    With(ReadWords(f, r, 4), LAMBDA h :
        IF h.err # NIL
        THEN [r |-> h.r, tocs |-> <<>>, err |-> h.err]
        ELSE ReadTocs(f, h.r, ToInt(h.words[4])))

\* decoder.header: [r, tocs, err].
header(f, r) ==
    With(uint32(f, r), LAMBDA magic :
        IF magic.err # NIL
        THEN [r |-> magic.r, tocs |-> <<>>, err |-> magic.err]
        ELSE IF magic.data # fileMagic
        THEN [r |-> magic.r, tocs |-> <<>>, err |-> "ErrBadMagic"]
        ELSE \* header size, version, ntoc
             With(ReadWords(f, magic.r, 3), LAMBDA h :
                 IF h.err # NIL
                 THEN [r |-> h.r, tocs |-> <<>>, err |-> h.err]
                 ELSE ReadTocs(f, h.r, ToInt(h.words[3]))))

\* tocHeader that compares the subtype only (mutant of tocHeader).
tocHeader_NoTypeCheck(f, r, toc) ==
    With(ReadWords(f, r, 2), LAMBDA a :
        IF a.err # NIL
        THEN [r |-> a.r, err |-> a.err]
        ELSE With(uint32(f, a.r), LAMBDA b :
                 IF b.err # NIL
                 THEN [r |-> b.r, err |-> b.err]
                 ELSE IF b.data # toc.Subtype
                 THEN [r |-> b.r, err |-> "SubtypeMismatch"]
                 ELSE With(uint32(f, b.r), LAMBDA c :
                          [r |-> c.r, err |-> c.err])))

\* tocHeader that compares the type only (mutant of tocHeader).
tocHeader_NoSubtypeCheck(f, r, toc) ==
    With(ReadWords(f, r, 2), LAMBDA a :
        IF a.err # NIL
        THEN [r |-> a.r, err |-> a.err]
        ELSE IF a.words[2] # toc.Type
        THEN [r |-> a.r, err |-> "TypeMismatch"]
        ELSE With(ReadWords(f, a.r, 2), LAMBDA b :
                 [r |-> b.r, err |-> b.err]))

\* decoder.tocHeader: [r, err].
tocHeader(f, r, toc) ==
    \* a: header size, type; b: subtype; c: version
    With(ReadWords(f, r, 2), LAMBDA a :
        IF a.err # NIL
        THEN [r |-> a.r, err |-> a.err]
        ELSE IF a.words[2] # toc.Type
        THEN [r |-> a.r, err |-> "TypeMismatch"]
        ELSE With(uint32(f, a.r), LAMBDA b :
                 IF b.err # NIL
                 THEN [r |-> b.r, err |-> b.err]
                 ELSE IF b.data # toc.Subtype
                 THEN [r |-> b.r, err |-> "SubtypeMismatch"]
                 ELSE With(uint32(f, b.r), LAMBDA c :
                          [r |-> c.r, err |-> c.err])))

\* decoder.comment: [r, val, err, alloc]; alloc counts the payload buffers
\* made (buf.Grow here, make([]byte, ...) in image).
comment(f, r, toc) ==
    With(uint32(f, r), LAMBDA length :
        IF length.err # NIL
        THEN [r |-> length.r, val |-> NIL, err |-> length.err, alloc |-> 0]
        ELSE With(ReadFull(f, length.r, ToInt(length.data)), LAMBDA body :
                 IF body.err # NIL
                 THEN [r |-> body.r, val |-> NIL, err |-> body.err, alloc |-> 1]
                 ELSE [r |-> body.r, err |-> NIL, alloc |-> 1,
                       val |-> [Subtype |-> ToInt(toc.Subtype),
                                Comment |-> body.data]]))

\* len(pixels) in decoder.image: w*h*4 evaluated in uint32.
PixLen(w, h) == ToInt(MulU32(MulU32(w, h), Bytes4(4)))

\* decoder.image: [r, val, err, alloc].
image(f, r, toc) ==
    \* hd: w, h, xhot, yhot, delay
    With(ReadWords(f, r, 5), LAMBDA hd :
        IF hd.err # NIL
        THEN [r |-> hd.r, val |-> NIL, err |-> hd.err, alloc |-> 0]
        ELSE With(ReadFull(f, hd.r, PixLen(hd.words[1], hd.words[2])), LAMBDA pixels :
                 IF pixels.err # NIL
                 THEN [r |-> pixels.r, val |-> NIL, err |-> pixels.err, alloc |-> 1]
                 ELSE [r |-> pixels.r, err |-> NIL, alloc |-> 1,
                       val |-> [NominalSize |-> ToInt(toc.Subtype),
                                Delay |-> ToInt(hd.words[5]),
                                Hot |-> <<ToInt(hd.words[3]), ToInt(hd.words[4])>>,
                                Rect |-> <<ToInt(hd.words[1]), ToInt(hd.words[2])>>,
                                Pix |-> pixels.data]]))

\* An image put in front of its group instead of behind (mutant of
\* AppendImage).
AppendImage_Prepend(images, img) ==
    IF img.NominalSize \in DOMAIN images
    THEN [images EXCEPT ![img.NominalSize] = <<img>> \o @]
    ELSE images @@ (img.NominalSize :> <<img>>)

\* cursor.Images[img.NominalSize] = append(cursor.Images[img.NominalSize], img)
AppendImage(images, img) ==
    IF img.NominalSize \in DOMAIN images
    THEN [images EXCEPT ![img.NominalSize] = Append(@, img)]
    ELSE images @@ (img.NominalSize :> <<img>>)

\* The body of the loop of decoder.Decode after SeekTo, for one TOC entry:
\* tocHeader, then the switch on toc.Type.  [r, err, Comments, Images, alloc].
section(f, r, toc, comments, images) ==
    With(tocHeader(f, r, toc), LAMBDA th0 :
        IF th0.err # NIL
        THEN [r |-> th0.r, err |-> th0.err, Comments |-> comments,
              Images |-> images, alloc |-> 0]
        ELSE IF toc.Type = tocTypeComment
        THEN With(comment(f, th0.r, toc), LAMBDA c :
                 [r |-> c.r, err |-> c.err, alloc |-> c.alloc, Images |-> images,
                  Comments |-> IF c.err = NIL THEN Append(comments, c.val)
                               ELSE comments])
        ELSE IF toc.Type = tocTypeImage
        THEN With(image(f, th0.r, toc), LAMBDA im :
                 [r |-> im.r, err |-> im.err, alloc |-> im.alloc, Comments |-> comments,
                  Images |-> IF im.err = NIL THEN AppendImage(images, im.val)
                             ELSE images])
        ELSE [r |-> th0.r, err |-> "UnknownType", Comments |-> comments,
              Images |-> images, alloc |-> 0])

-----------------------------------------------------------------------------
(* decoder.Decode as a state machine over d:                                *)
(*   pc        "header", "seek", "section", "done", "panicked" ("idle" when *)
(*             no decode runs)                                              *)
(*   r         the reader, see above                                        *)
(*   err       decoder.err and the error Decode returns                     *)
(*   tocs, i   the TOC read by header and the index of the entry at hand    *)
(*   Comments, Images   the local `cursor` being filled                     *)
(*   retNil, ret        the *Cursor Decode returns: nil, or the cursor      *)
(*   allocs    ghost: payload buffers allocated so far                      *)

EmptyCursor == [Comments |-> <<>>, Images |-> <<>>]

DIdle ==
    [pc |-> "idle", r |-> [n |-> 0, upos |-> 0, buffered |-> 0], err |-> NIL,
     tocs |-> <<>>, i |-> 0, Comments |-> <<>>, Images |-> <<>>,
     retNil |-> TRUE, ret |-> EmptyCursor, allocs |-> 0]

\* Decode(r): a fresh decoder over the stream, positioned at offset 0.
DecodeCall == [DIdle EXCEPT !.pc = "header"]

\* catch that hands out the cursor filled so far (mutant of catch).
catch_ReturnsPartial(dd, e) ==
    [dd EXCEPT !.pc = "done", !.err = e, !.retNil = FALSE,
               !.ret = [Comments |-> dd.Comments, Images |-> dd.Images]]

\* decoder.catch on a decoderError: the named result c is still nil.
catch(dd, e) ==
    [dd EXCEPT !.pc = "done", !.err = e, !.retNil = TRUE, !.ret = EmptyCursor]

\* decoder.catch on any other panic value: panic(r) again, nothing returned.
rethrow(dd) ==
    [dd EXCEPT !.pc = "panicked", !.retNil = TRUE, !.ret = EmptyCursor]

\* tocs := d.header()
DecodeHeader ==
    /\ d.pc = "header"
    /\ LET h == header(file, d.r)
       IN  d' = IF h.err # NIL
                THEN catch([d EXCEPT !.r = h.r], h.err)
                ELSE [d EXCEPT !.r = h.r, !.tocs = h.tocs, !.i = 1, !.pc = "seek"]
    /\ UNCHANGED <<bs, file, seekable, layout, fault, fs, th, first, px>>

\* d.SeekTo(int(toc.Position))
DecodeSeekTo ==
    /\ d.pc = "seek"
    /\ d.i <= Len(d.tocs)
    /\ LET s == SeekTo(file, seekable, d.r, ToInt(d.tocs[d.i].Position))
       IN  d' = IF s.panic
                THEN rethrow([d EXCEPT !.r = s.r])
                ELSE IF s.err # NIL
                THEN catch([d EXCEPT !.r = s.r], s.err)
                ELSE [d EXCEPT !.r = s.r, !.pc = "section"]
    /\ UNCHANGED <<bs, file, seekable, layout, fault, fs, th, first, px>>

\* d.tocHeader(toc) and the switch on toc.Type
DecodeSection ==
    /\ d.pc = "section"
    /\ LET s == section(file, d.r, d.tocs[d.i], d.Comments, d.Images)
           dd == [d EXCEPT !.r = s.r, !.allocs = d.allocs + s.alloc]
       IN  d' = IF s.err # NIL
                THEN catch(dd, s.err)
                ELSE [dd EXCEPT !.Comments = s.Comments, !.Images = s.Images,
                                !.i = d.i + 1, !.pc = "seek"]
    /\ UNCHANGED <<bs, file, seekable, layout, fault, fs, th, first, px>>

\* return &cursor, nil
DecodeReturn ==
    /\ d.pc = "seek"
    /\ d.i > Len(d.tocs)
    /\ d' = [d EXCEPT !.pc = "done", !.retNil = FALSE,
                      !.ret = [Comments |-> d.Comments, Images |-> d.Images]]
    /\ UNCHANGED <<bs, file, seekable, layout, fault, fs, th, first, px>>

-----------------------------------------------------------------------------
(* The streams handed to Decode: files synthesised section by section in    *)
(* the on-disk layout header() / tocHeader() / comment() / image() parse,   *)
(* then damaged in at most one place.                                       *)

\* A section: kind "comment" (len bytes of text), "image" (w x h, pix pixel
\* bytes supplied) or "unknown" (a type word Decode does not know).
Sec(kind, subtype, len, w, h, pix) ==
    [kind |-> kind, subtype |-> subtype, len |-> len, w |-> w, h |-> h, pix |-> pix]

SecDescs ==
    { Sec("comment", 1, 2, 0, 0, 0),
      Sec("comment", 7, 0, 0, 0, 0),
      Sec("image", 24, 0, 1, 1, 4),
      Sec("image", 0, 0, 2, 1, 8),
      Sec("image", 32, 0, 32768, 32768, 0),
      Sec("unknown", 5, 0, 0, 0, 0) }

SecLists ==
    {<<>>} \cup {<<a>> : a \in SecDescs} \cup {<<a, b>> : a \in SecDescs, b \in SecDescs}

\* The bytes between the TOC and the first section, and between sections:
\* none, few enough to lie in the reader's buffer, more than it holds.
Gaps == {0, 4, 24}

TypeWord(kind) ==
    CASE kind = "comment" -> tocTypeComment
      [] kind = "image" -> tocTypeImage
      [] OTHER -> <<3, 0, 0, 0>>

Zeros(k) == [j \in 1..k |-> 0]

\* Section k of a file: size, type, subtype, version, then the payload.
\* The hotspot x and the text carry k, so that equal sections stay apart.
SecBytes(sec, k) ==
    Bytes4(16) \o TypeWord(sec.kind) \o Bytes4(sec.subtype) \o Bytes4(1)
    \o (CASE sec.kind = "comment" ->
                Bytes4(sec.len) \o [j \in 1..sec.len |-> 64 + 16 * k + j]
          [] sec.kind = "image" ->
                Bytes4(sec.w) \o Bytes4(sec.h) \o Bytes4(k) \o Bytes4(2) \o Bytes4(50)
                \o [j \in 1..sec.pix |-> 32 * k + j]
          [] OTHER -> <<>>)

RECURSIVE SecPos(_, _, _)
\* The offset at which section k starts.
SecPos(secs, gap, k) ==
    IF k = 1
    THEN 16 + 12 * Len(secs) + gap
    ELSE SecPos(secs, gap, k - 1) + Len(SecBytes(secs[k - 1], k - 1)) + gap

RECURSIVE Flat(_)
Flat(ss) == IF ss = <<>> THEN <<>> ELSE Head(ss) \o Flat(Tail(ss))

\* lay = [secs, ord, gap]: TOC entry j points at section ord[j].
Encode(lay) ==
    LET n == Len(lay.secs)
    IN  fileMagic \o Bytes4(16) \o Bytes4(1) \o Bytes4(Len(lay.ord))
        \o Flat([j \in 1..Len(lay.ord) |->
                    TypeWord(lay.secs[lay.ord[j]].kind)
                    \o Bytes4(lay.secs[lay.ord[j]].subtype)
                    \o Bytes4(SecPos(lay.secs, lay.gap, lay.ord[j]))])
        \o Flat([k \in 1..n |-> Zeros(lay.gap) \o SecBytes(lay.secs[k], k)])

\* TOC orders: file order; for two sections also reversed, and both entries
\* pointing at the first section.
Orders(secs) ==
    IF Len(secs) = 2
    THEN {<<1, 2>>, <<2, 1>>, <<1, 1>>}
    ELSE {[j \in 1..Len(secs) |-> j]}

NoFault == [kind |-> "none", at |-> 0, val |-> <<>>]

\* A damaged word is overwritten with one of these.
FaultWords == {Bytes4(0), Bytes4(1)}

\* One fault: the stream ends after `at` bytes (an even number, so that it
\* ends between two words or inside one), or the four bytes at offset `at`
\* are overwritten.
Faults(base) ==
    {NoFault}
    \cup {[kind |-> "cut", at |-> 2 * k, val |-> <<>>] : k \in 0..((Len(base) - 1) \div 2)}
    \cup {[kind |-> "set", at |-> 4 * k, val |-> v] :
            k \in 0..((Len(base) \div 4) - 1), v \in FaultWords}

Damage(base, flt) ==
    CASE flt.kind = "cut" -> SubSeq(base, 1, flt.at)
      [] flt.kind = "set" ->
            [j \in 1..Len(base) |->
                IF j > flt.at /\ j <= flt.at + 4 THEN flt.val[j - flt.at] ELSE base[j]]
      [] OTHER -> base

LayIdle == [secs |-> <<>>, ord |-> <<>>, gap |-> 0]

DecodeInit ==
    \E ss \in SecLists, g \in Gaps, sk \in BOOLEAN :
        \E o \in Orders(ss) :
            LET lay == [secs |-> ss, ord |-> o, gap |-> g]
                base == Encode(lay)
            IN  \E flt \in Faults(base) :
                    /\ layout = lay
                    /\ fault = flt
                    /\ file = Damage(base, flt)
                    /\ seekable = sk
                    /\ d = DecodeCall

-----------------------------------------------------------------------------
(* Theme resolver: theme.go, LoadTheme / LoadThemeFromDir / Theme.load /    *)
(* Theme.loadDir / loadInherits.                                            *)
(*                                                                          *)
(* The file system is an input.  fs holds what the load has looked at so    *)
(* far: an index.theme under key <<root, theme, "index">>, a cursors        *)
(* directory under <<root, theme, "cursors">>.  The first look at a key     *)
(* draws its content; every later look finds the same content.              *)

\* libraryPaths(): the search roots, in order.
Roots == <<"r1", "r2">>

\* The theme names index.theme files may list after Inherits.
InheritNames == {"T", "A"}

\* The file names a cursors directory may hold, in the order os.ReadDir
\* lists them (sorted by name).
NameOrder == <<"left_ptr", "wait">>

Names == {NameOrder[j] : j \in 1..Len(NameOrder)}

\* What a name is in a cursors directory:
\*   absent    no such entry
\*   good      a regular file Decode accepts
\*   badmagic  a regular file whose first four bytes are not the magic
\*   corrupt   a regular file Decode rejects with another error
\*   dangling  a symbolic link whose target does not exist
\*   subdir    a directory
Kinds == {"absent", "good", "badmagic", "corrupt", "dangling", "subdir"}

\* The kinds of entry, and the states of an index.theme or of a cursors
\* directory, that a well-kept installation does not have.
OddKinds == {"badmagic", "corrupt", "dangling", "subdir"}

OddStates == {"error", "nokey"}

\* How many such oddities the file systems of the model hold at most.
MaxOdd == 1

\* index.theme: missing; unreadable ("error"); readable with no
\* `Inherits...=` line ("nokey"); or readable with the listed themes after
\* Inherits=.
IndexOpts ==
    {[state |-> st, inherits |-> <<>>] : st \in {"missing", "error", "nokey"}}
    \cup {[state |-> "ok", inherits |-> l] :
            l \in {<<>>, <<"T", "A">>} \cup {<<x>> : x \in InheritNames}}

\* A cursors directory: missing; unreadable ("error"); or its entries.
DirOpts ==
    {[state |-> st, ents |-> [x \in Names |-> "absent"]] : st \in {"missing", "error"}}
    \cup {[state |-> "ok", ents |-> e] : e \in [Names -> Kinds]}

\* The oddities of one index.theme or cursors directory, and of all that
\* the load has looked at.
Odd(c) ==
    IF c.state \in OddStates THEN 1
    ELSE IF "ents" \in DOMAIN c
    THEN Cardinality({x \in Names : c.ents[x] \in OddKinds})
    ELSE 0

RECURSIVE OddSum(_, _)
OddSum(g, keys) ==
    IF keys = {} THEN 0
    ELSE LET k == CHOOSE x \in keys : TRUE
         IN  Odd(g[k]) + OddSum(g, keys \ {k})

\* Errors: kind "nil" is the nil error; notExist = errors.Is(err,
\* fs.ErrNotExist), badMagic = errors.Is(err, ErrBadMagic); `path` is the
\* path the message names.  Wrapping with %w keeps all of them.
Err(kind, path, notExist, badMagic) ==
    [kind |-> kind, path |-> path, notExist |-> notExist, badMagic |-> badMagic]

NoErr == Err("nil", <<>>, FALSE, FALSE)

\* DecodeFile(path) for a directory entry of the given kind; a decoded
\* cursor is named by the path of the file it came from.
DecodeFile(kind, path) ==
    CASE kind = "good" -> [cur |-> path, err |-> NoErr]
      [] kind = "badmagic" -> [cur |-> <<>>, err |-> Err("decode", path, FALSE, TRUE)]
      [] kind = "dangling" -> [cur |-> <<>>, err |-> Err("open", path, TRUE, FALSE)]
      [] OTHER -> [cur |-> <<>>, err |-> Err("decode", path, FALSE, FALSE)]

\* loadDir's round without the look at t.Cursors: a later file replaces the
\* cursor of its name (mutant of loadEntry).
loadEntry_Overwrites(acc, dir, name, kind) ==
    IF kind \notin {"good", "badmagic", "corrupt", "dangling"}
    THEN acc
    ELSE LET entpath == <<dir[1], dir[2], name>>
             res == DecodeFile(kind, entpath)
             acc1 == [acc EXCEPT !.decoded = acc.decoded \cup {entpath}]
         IN  IF res.err # NoErr
             THEN IF res.err.badMagic
                  THEN acc1
                  ELSE [acc1 EXCEPT !.err = res.err]
             ELSE [acc1 EXCEPT !.Cursors =
                        (name :> res.cur) @@ acc.Cursors]

\* loadDir's round without the look at the entry's type: directories are
\* handed to DecodeFile too (mutant of loadEntry).
loadEntry_NoTypeCheck(acc, dir, name, kind) ==
    IF name \in DOMAIN acc.Cursors
    THEN acc
    ELSE LET entpath == <<dir[1], dir[2], name>>
             res == DecodeFile(kind, entpath)
             acc1 == [acc EXCEPT !.decoded = acc.decoded \cup {entpath}]
         IN  IF res.err # NoErr
             THEN IF res.err.badMagic
                  THEN acc1
                  ELSE [acc1 EXCEPT !.err = res.err]
             ELSE [acc1 EXCEPT !.Cursors = acc.Cursors @@ (name :> res.cur)]

\* One round of the loop of Theme.loadDir, for entry `name` of kind `kind`
\* in directory dir = <<root, theme>>: acc = [Cursors, err, decoded].
loadEntry(acc, dir, name, kind) ==
    IF name \in DOMAIN acc.Cursors
    THEN acc
    ELSE IF kind \notin {"good", "badmagic", "corrupt", "dangling"}
    THEN acc \* neither a regular file nor a symbolic link
    ELSE LET entpath == <<dir[1], dir[2], name>>
             res == DecodeFile(kind, entpath)
             acc1 == [acc EXCEPT !.decoded = acc.decoded \cup {entpath}]
         IN  IF res.err # NoErr
             THEN IF res.err.badMagic
                  THEN acc1
                  ELSE [acc1 EXCEPT !.err = res.err]
             ELSE [acc1 EXCEPT !.Cursors = acc.Cursors @@ (name :> res.cur)]

RECURSIVE loadEntries(_, _, _, _)
\* The loop of Theme.loadDir from entry j on; it returns at the first error.
loadEntries(acc, dir, ents, j) ==
    IF j > Len(NameOrder) \/ acc.err # NoErr
    THEN acc
    ELSE LET name == NameOrder[j]
         IN  loadEntries(IF ents[name] = "absent" THEN acc
                         ELSE loadEntry(acc, dir, name, ents[name]),
                         dir, ents, j + 1)

\* Theme.loadDir(path) on a directory of content c: [Cursors, err, decoded].
loadDir(cursors, decoded, dir, c) ==
    IF c.state = "missing"
    THEN [Cursors |-> cursors, decoded |-> decoded,
          err |-> Err("readdir", <<dir[1], dir[2]>>, TRUE, FALSE)]
    ELSE IF c.state = "error"
    THEN [Cursors |-> cursors, decoded |-> decoded,
          err |-> Err("readdir", <<dir[1], dir[2]>>, FALSE, FALSE)]
    ELSE loadEntries([Cursors |-> cursors, decoded |-> decoded, err |-> NoErr],
                     dir, c.ents, 1)

\* How deep Theme.load may recurse in the model.
MaxDepth == 3

\* th: the call and the stack of Theme.load frames.
\*   call      "LoadTheme" or "LoadThemeFromDir"
\*   arg       the argument: a theme name, or the directory <<root, theme>>
\*   name      Theme.Name
\*   Cursors   Theme.Cursors: file name -> decoded cursor
\*   err       the error returned
\*   pc        "load", "fromdir", "done", "panicked"
\*   stack     the frames of Theme.load, innermost last; a frame is
\*             [theme, root, pc, inh]: pc "index" before loadInherits at
\*             Roots[root], "inherits" inside `for theme := range inherits`
\*             with inh the names still to come
\*   decoded   ghost: the paths DecodeFile was called with
ThIdle ==
    [pc |-> "idle", call |-> "none", arg |-> <<>>, name |-> "", Cursors |-> <<>>,
     err |-> NoErr, stack |-> <<>>, decoded |-> {}]

Frame(theme) == [theme |-> theme, root |-> 1, pc |-> "index", inh |-> <<>>]

\* LoadTheme(name): an empty name stands for "default".
LoadThemeCall(name) ==
    LET nm == IF name = "" THEN "default" ELSE name
    IN  [ThIdle EXCEPT !.pc = "load", !.call = "LoadTheme", !.arg = name,
                       !.name = nm, !.stack = <<Frame(nm)>>]

\* filepath.Base: the last element of a path.
Base(path) == path[Len(path)]

\* LoadThemeFromDir(path) with path = root/theme/cursors: the theme is named
\* by the base name of the path.
LoadThemeFromDirCall(dir) ==
    [ThIdle EXCEPT !.pc = "fromdir", !.call = "LoadThemeFromDir", !.arg = dir,
                   !.name = Base(<<dir[1], dir[2], "cursors">>)]

ThemeInit ==
    /\ fs = <<>>
    /\ \/ \E name \in {"", "T"} : th = LoadThemeCall(name)
       \/ \E dir \in {<<"r1", "T">>} : th = LoadThemeFromDirCall(dir)

Top == th.stack[Len(th.stack)]

SetTop(fr) == [th.stack EXCEPT ![Len(th.stack)] = fr]

\* Theme.load that ends its loop over the roots by returning the not-exist
\* error of the last one instead of nil (mutant of ReturnNil).
ReturnNil_AsError(t) ==
    [t EXCEPT !.stack = <<>>, !.pc = "done",
              !.err = Err("inherits", <<>>, TRUE, FALSE)]

\* `return nil` of the innermost Theme.load: back in the caller's loop over
\* its inherits, or LoadTheme returns.
ReturnNil(t) ==
    IF Len(t.stack) = 1
    THEN [t EXCEPT !.stack = <<>>, !.pc = "done", !.err = NoErr]
    ELSE [t EXCEPT !.stack = SubSeq(t.stack, 1, Len(t.stack) - 1)]

\* `return fmt.Errorf(...: %w, err)`: every caller wraps and returns it.
ReturnErr(t, e) == [t EXCEPT !.stack = <<>>, !.pc = "done", !.err = e]

\* The file system answers a look at key k with content c: what it holds
\* there if k was looked at before, any content of opts if not.
Look(k, c, opts) ==
    IF k \in DOMAIN fs
    THEN c = fs[k] /\ fs' = fs
    ELSE /\ c \in opts
         /\ OddSum(fs, DOMAIN fs) + Odd(c) <= MaxOdd
         /\ fs' = fs @@ (k :> c)

\* Theme.load, top of one round of `for path := range libraryPaths()`:
\* loadInherits(path/theme/index.theme) and what follows from its result.
LoadInherits ==
    /\ th.pc = "load"
    /\ Top.pc = "index"
    /\ \E c \in IndexOpts :
        /\ Look(<<Roots[Top.root], Top.theme, "index">>, c, IndexOpts)
        /\ th' = CASE c.state = "missing" ->
                        \* errors.Is(err, fs.ErrNotExist): continue
                        IF Top.root < Len(Roots)
                        THEN [th EXCEPT !.stack = SetTop([Top EXCEPT !.root = Top.root + 1])]
                        ELSE ReturnNil(th)
                   [] c.state = "error" ->
                        ReturnErr(th, Err("inherits",
                                          <<Roots[Top.root], Top.theme, "index.theme">>,
                                          FALSE, FALSE))
                   [] c.state = "nokey" ->
                        \* inherits is a nil iter.Seq: ranging over it calls nil
                        [th EXCEPT !.pc = "panicked"]
                   [] OTHER ->
                        [th EXCEPT !.stack = SetTop([Top EXCEPT !.pc = "inherits",
                                                                !.inh = c.inherits])]
    /\ UNCHANGED <<bs, file, seekable, layout, fault, d, first, px>>

\* One round of `for theme := range inherits`: err := t.load(theme).
LoadInherited ==
    /\ th.pc = "load"
    /\ Top.pc = "inherits"
    /\ Top.inh # <<>>
    /\ Len(th.stack) < MaxDepth
    /\ th' = [th EXCEPT !.stack = Append(SetTop([Top EXCEPT !.inh = Tail(Top.inh)]),
                                         Frame(Head(Top.inh)))]
    /\ UNCHANGED <<bs, file, seekable, layout, fault, d, fs, first, px>>

\* After the inherits: t.loadDir(path/theme/cursors), then break.
LoadOwnDir ==
    /\ th.pc = "load"
    /\ Top.pc = "inherits"
    /\ Top.inh = <<>>
    /\ \E c \in DirOpts :
        /\ Look(<<Roots[Top.root], Top.theme, "cursors">>, c, DirOpts)
        /\ LET res == loadDir(th.Cursors, th.decoded, <<Roots[Top.root], Top.theme>>, c)
               t1 == [th EXCEPT !.Cursors = res.Cursors, !.decoded = res.decoded]
           IN  th' = IF res.err # NoErr /\ ~res.err.notExist
                     THEN ReturnErr(t1, res.err)
                     ELSE ReturnNil(t1)
    /\ UNCHANGED <<bs, file, seekable, layout, fault, d, first, px>>

\* LoadThemeFromDir: return &c, c.loadDir(path).
LoadFromDir ==
    /\ th.pc = "fromdir"
    /\ \E c \in DirOpts :
        /\ Look(<<th.arg[1], th.arg[2], "cursors">>, c, DirOpts)
        /\ LET res == loadDir(th.Cursors, th.decoded, th.arg, c)
           IN  th' = [th EXCEPT !.Cursors = res.Cursors, !.decoded = res.decoded,
                                !.err = res.err, !.pc = "done"]
    /\ UNCHANGED <<bs, file, seekable, layout, fault, d, first, px>>

-----------------------------------------------------------------------------
(* Idle values and the specifications.                                      *)

FsIdle == <<>>

\* No earlier Decode of the stream.  Of an earlier Decode the caller keeps
\* what it returned and whether its source was seekable.
FirstIdle ==
    [done |-> FALSE, retNil |-> TRUE, ret |-> EmptyCursor, err |-> NIL,
     seekable |-> FALSE]

PxIdle == [pc |-> "idle"]

InitBest ==
    /\ BestInit
    /\ file = <<>> /\ seekable = FALSE /\ layout = LayIdle /\ fault = NoFault
    /\ d = DIdle /\ fs = FsIdle /\ th = ThIdle
    /\ first = FirstIdle /\ px = PxIdle

NextBest == BestSizeStep \/ BestSizeReturn

SpecBest == InitBest /\ [][NextBest]_vars

InitDecode ==
    /\ DecodeInit
    /\ bs = BsIdle /\ fs = FsIdle /\ th = ThIdle
    /\ first = FirstIdle /\ px = PxIdle

NextDecode == DecodeHeader \/ DecodeSeekTo \/ DecodeSection \/ DecodeReturn

SpecDecode == InitDecode /\ [][NextDecode]_vars

-----------------------------------------------------------------------------
(* Properties of Decode (SpecDecode).                                       *)

Finished == d.pc \in {"done", "panicked"}

Succeeded == d.pc = "done" /\ d.err = NIL /\ ~d.retNil

\* The sections the local cursor holds.
ImageSlots(images) ==
    UNION {{<<k, j>> : j \in 1..Len(images[k])} : k \in DOMAIN images}

Decoded(dd) == Len(dd.Comments) + Cardinality(ImageSlots(dd.Images))

\* C4 as claimed: every Decode that does not succeed returns a nil Cursor and
\* a non-nil error to its caller, a backward TOC position included.
C4_EveryFailureReturnsError ==
    (Finished /\ ~Succeeded) => (d.pc = "done" /\ d.retNil /\ d.err # NIL)

\* What the code does keep of C4: a Decode that fails on bad magic, a short
\* read, a mismatch or an unknown type returns nil and the error of the
\* failing step, with every TOC entry before the failing one decoded and
\* none after; a TOC position behind the reader makes Decode panic instead
\* of returning; either way no cursor is handed out and nothing runs after
\* the failure.
C4_FailureReturnsNilOrPanics ==
    /\ [](/\ (d.pc = "done" /\ d.err # NIL) =>
                /\ d.retNil /\ d.ret = EmptyCursor
                /\ d.i <= Len(d.tocs)
                /\ d.tocs # <<>> => Decoded(d) = d.i - 1
                /\ d.tocs = <<>> => Decoded(d) = 0
          /\ d.pc = "panicked" =>
                /\ d.retNil /\ d.ret = EmptyCursor /\ d.err = NIL
                /\ ToInt(d.tocs[d.i].Position) < d.r.n
                /\ Decoded(d) = d.i - 1
          /\ d.pc = "done" => (d.err = NIL <=> ~d.retNil))
    /\ [][~Finished]_vars

C4_Witness ==
    d.pc = "done" /\ d.err = "EOF" /\ d.i = 2 /\ Decoded(d) = 1

\* C5: a stream of at least four bytes whose first four are not the magic
\* fails with ErrBadMagic after exactly those four bytes: no header field
\* or TOC entry is read and no payload buffer allocated.
C5_BadMagicFailsFirst ==
    (Len(file) >= 4 /\ SubSeq(file, 1, 4) # fileMagic /\ d.pc # "header") =>
        /\ d.pc = "done" /\ d.err = "ErrBadMagic" /\ d.retNil
        /\ d.r.n = 4 /\ d.tocs = <<>> /\ d.allocs = 0 /\ Decoded(d) = 0

C5_Witness ==
    d.pc = "done" /\ d.err = "ErrBadMagic" /\ fault.kind = "set" /\ Len(file) > 16

\* C6: at the section step, when the type word at the entry's position
\* differs from the entry's type, or the types agree and the subtype word
\* differs from the entry's subtype, Decode fails with the mismatch error
\* right after that word: no payload byte is read, no buffer allocated and
\* the cursor is left as it was.
C6_SubHeaderMismatchIsFatal ==
    [][d.pc = "section" =>
        LET toc == d.tocs[d.i]
            p == ToInt(toc.Position)
            typeDiffers == Len(file) >= p + 8 /\ SubSeq(file, p + 5, p + 8) # toc.Type
            subDiffers == /\ Len(file) >= p + 12
                          /\ SubSeq(file, p + 5, p + 8) = toc.Type
                          /\ SubSeq(file, p + 9, p + 12) # toc.Subtype
            untouched == /\ d'.pc = "done" /\ d'.retNil
                         /\ d'.allocs = d.allocs
                         /\ d'.Comments = d.Comments /\ d'.Images = d.Images
        IN  /\ typeDiffers => (d'.err = "TypeMismatch" /\ d'.r.n = p + 8 /\ untouched)
            /\ subDiffers => (d'.err = "SubtypeMismatch" /\ d'.r.n = p + 12 /\ untouched)
    ]_vars

C6_Witness ==
    d.pc = "done" /\ d.err = "SubtypeMismatch" /\ d.i = 2 /\ Decoded(d) = 1

\* len = 4 * w * h, without forming the product.
PixMatches(len, w, h) ==
    IF w = 0 \/ h = 0
    THEN len = 0
    ELSE len % 4 = 0 /\ (len \div 4) % w = 0 /\ (len \div 4) \div w = h

\* C7 as claimed: Decode never returns an Image whose pixel buffer holds
\* fewer bytes than its declared width * height * 4; a stream with fewer
\* bytes left fails instead.
C7_NoShortPixelBuffer ==
    Succeeded =>
        \A s \in ImageSlots(d.ret.Images) :
            LET img == d.ret.Images[s[1]][s[2]]
            IN  PixMatches(Len(img.Pix), img.Rect[1], img.Rect[2])

\* A layout is well formed when its TOC lists its sections in file order,
\* every section is a comment or an image, and every image carries the
\* width * height * 4 pixel bytes it declares.
WellFormed(lay) ==
    /\ lay.ord = [j \in 1..Len(lay.secs) |-> j]
    /\ \A k \in 1..Len(lay.secs) :
        LET sec == lay.secs[k]
        IN  \/ sec.kind = "comment"
            \/ sec.kind = "image" /\ sec.w < 256 /\ sec.h < 256
                                  /\ sec.pix = 4 * sec.w * sec.h

\* What section k of a layout must decode to.
ExpComment(lay, k) ==
    [Subtype |-> lay.secs[k].subtype,
     Comment |-> [j \in 1..lay.secs[k].len |-> 64 + 16 * k + j]]

ExpImage(lay, k) ==
    [NominalSize |-> lay.secs[k].subtype, Delay |-> 50, Hot |-> <<k, 2>>,
     Rect |-> <<lay.secs[k].w, lay.secs[k].h>>,
     Pix |-> [j \in 1..lay.secs[k].pix |-> 32 * k + j]]

RECURSIVE ExpSeq(_, _, _, _)
\* The sections k.. of kind `kind` (images: of nominal size `size`), in order.
ExpSeq(lay, k, kind, size) ==
    IF k > Len(lay.secs)
    THEN <<>>
    ELSE (IF lay.secs[k].kind # kind THEN <<>>
          ELSE IF kind = "comment" THEN <<ExpComment(lay, k)>>
          ELSE IF lay.secs[k].subtype = size THEN <<ExpImage(lay, k)>>
          ELSE <<>>)
         \o ExpSeq(lay, k + 1, kind, size)

\* C8: a well-formed, undamaged file with N TOC entries decodes without
\* error into exactly N sections: the comments in TOC order, and under each
\* nominal size the images of that size in TOC order.
C8_WellFormedRoundTrip ==
    (Finished /\ fault = NoFault /\ WellFormed(layout)) =>
        /\ Succeeded
        /\ Decoded(d) = Len(layout.secs)
        /\ Len(d.ret.Comments) + Cardinality(ImageSlots(d.ret.Images)) = Len(layout.secs)
        /\ d.ret.Comments = ExpSeq(layout, 1, "comment", 0)
        /\ DOMAIN d.ret.Images =
              {layout.secs[k].subtype : k \in {j \in 1..Len(layout.secs) :
                                                  layout.secs[j].kind = "image"}}
        /\ \A size \in DOMAIN d.ret.Images :
              d.ret.Images[size] = ExpSeq(layout, 1, "image", size)

C8_Witness ==
    /\ Succeeded /\ fault = NoFault /\ WellFormed(layout)
    /\ Len(layout.secs) = 2
    /\ Len(d.ret.Comments) = 1
    /\ DOMAIN d.ret.Images = {24}
    /\ layout.gap = 24 /\ seekable

\* C9: SeekTo to a position behind the reader panics and leaves the
\* position, the stream offset and the buffer alone; over every step of a
\* decode the position never decreases.
C9_SeekNeverRewinds ==
    [][/\ (d.pc = "seek" /\ d.i <= Len(d.tocs)
              /\ ToInt(d.tocs[d.i].Position) < d.r.n) =>
            (d'.pc = "panicked" /\ d'.r = d.r)
       /\ d'.r.n >= d.r.n
    ]_vars

C9_Witness ==
    d.pc = "panicked" /\ d.i = 2 /\ Decoded(d) = 1 /\ fault = NoFault

InitTheme ==
    /\ ThemeInit
    /\ bs = BsIdle
    /\ file = <<>> /\ seekable = FALSE /\ layout = LayIdle /\ fault = NoFault
    /\ d = DIdle
    /\ first = FirstIdle /\ px = PxIdle

NextTheme == LoadInherits \/ LoadInherited \/ LoadOwnDir \/ LoadFromDir

SpecTheme == InitTheme /\ [][NextTheme]_vars

-----------------------------------------------------------------------------
(* Properties of the theme resolver (SpecTheme).                            *)

RootSet == {Roots[j] : j \in 1..Len(Roots)}

\* The kind of the entry at path p = <<root, theme, name>> of a directory
\* the load has read.
KindAt(p) == fs[<<p[1], p[2], "cursors">>].ents[p[3]]

\* root/theme/cursors was read and holds a decodable file `name`.
HasGood(root, theme, name) ==
    /\ <<root, theme, "cursors">> \in DOMAIN fs
    /\ fs[<<root, theme, "cursors">>].state = "ok"
    /\ fs[<<root, theme, "cursors">>].ents[name] = "good"

\* The themes the index.theme files read for theme x name after Inherits=.
Direct(x) ==
    UNION {{fs[k].inherits[j] : j \in 1..Len(fs[k].inherits)} :
            k \in {q \in DOMAIN fs : q[2] = x /\ q[3] = "index"}}

Step(S) == S \cup UNION {Direct(x) : x \in S}

\* The themes x inherits, directly or through others.
Ancestors(x) == Step(Step(Direct(x)))

\* C1 as claimed: after LoadTheme(T) returns without error, a cursor name
\* that both T's cursors directory and the cursors directory of an ancestor
\* of T hold as a decodable file is mapped to the cursor of T's own file.
C1_OwnCursorShadowsInherited ==
    (th.pc = "done" /\ th.call = "LoadTheme" /\ th.err = NoErr) =>
        \A name \in Names, rT \in RootSet, rA \in RootSet :
            \A a \in Ancestors(th.name) \ {th.name} :
                (HasGood(rT, th.name, name) /\ HasGood(rA, a, name)) =>
                    /\ name \in DOMAIN th.Cursors
                    /\ th.Cursors[name] = <<rT, th.name, name>>

\* C2: in every step of a load, each name already in Theme.Cursors keeps its
\* cursor, and DecodeFile is not called on a file whose name is already in
\* Theme.Cursors.
C2_FirstLoadedWins ==
    [][/\ \A n \in DOMAIN th.Cursors :
            n \in DOMAIN th'.Cursors /\ th'.Cursors[n] = th.Cursors[n]
       /\ \A q \in th'.decoded \ th.decoded : q[3] \notin DOMAIN th.Cursors
    ]_vars

\* A directory read during the load holds a decodable file under a name
\* whose cursor came, and stayed, from another directory.
C2_Witness ==
    /\ th.pc = "done"
    /\ \E n \in DOMAIN th.Cursors, r \in RootSet, x \in InheritNames \cup {"default"} :
        /\ HasGood(r, x, n)
        /\ th.Cursors[n] # <<r, x, n>>
        /\ <<r, x, n>> \notin th.decoded

\* C10 as claimed: a file that fails with ErrBadMagic is left out and the
\* next file of the directory is still loaded; a file whose open or decode
\* fails otherwise makes the load return an error naming that file.
C10_OtherFailureAbortsLoad ==
    th.pc = "done" =>
        \A q \in th.decoded :
            /\ KindAt(q) = "badmagic" =>
                /\ \A n \in DOMAIN th.Cursors : th.Cursors[n] # q
                /\ (q[3] = "left_ptr" /\ KindAt(<<q[1], q[2], "wait">>) = "good") =>
                        "wait" \in DOMAIN th.Cursors
            /\ KindAt(q) \in {"corrupt", "dangling"} =>
                (th.err # NoErr /\ th.err.path = q)

ThemeNames == InheritNames \cup {"default"}

IndexKey(i, x) == <<Roots[i], x, "index">>

CursorsKey(i, x) == <<Roots[i], x, "cursors">>

\* C11 as claimed: the recursion of Theme.load is bounded for every finite
\* set of themes, so no theme is entered while a load of that same theme is
\* still on the stack (the file system does not change during a load: a
\* theme entered inside itself is entered again and again).
C11_NoThemeLoadedInsideItself ==
    \A i, j \in 1..Len(th.stack) :
        i < j => th.stack[i].theme # th.stack[j].theme

\* C12 as claimed: the own cursors of a theme come from the first root whose
\* cursors directory exists.  So a cursors directory is read only after the
\* same theme's cursors directory of every earlier root was found missing,
\* a load that ends without error after finding a cursors directory missing
\* has gone on to the next root, and all cursors of one theme come from one
\* root.
C12_OwnCursorsFromFirstRoot ==
    th.call = "LoadTheme" =>
        /\ \A x \in ThemeNames, i \in 1..Len(Roots) :
            /\ CursorsKey(i, x) \in DOMAIN fs =>
                \A j \in 1..(i - 1) :
                    /\ CursorsKey(j, x) \in DOMAIN fs
                    /\ fs[CursorsKey(j, x)].state = "missing"
            /\ ( /\ th.pc = "done" /\ th.err = NoErr /\ i < Len(Roots)
                 /\ CursorsKey(i, x) \in DOMAIN fs
                 /\ fs[CursorsKey(i, x)].state = "missing" ) =>
                    CursorsKey(i + 1, x) \in DOMAIN fs
        /\ \A n1, n2 \in DOMAIN th.Cursors :
            th.Cursors[n1][2] = th.Cursors[n2][2] =>
                th.Cursors[n1][1] = th.Cursors[n2][1]

\* C13 as claimed: an index.theme that is missing, or that has no Inherits
\* key, is no error: the load does not fail on it, and the cursors directory
\* of that same root is read.
C13_MissingIndexStillLoadsCursors ==
    /\ th.pc # "panicked"
    /\ (th.pc = "done" /\ th.call = "LoadTheme" /\ th.err = NoErr) =>
        \A i \in 1..Len(Roots) :
            ( /\ IndexKey(i, th.name) \in DOMAIN fs
              /\ fs[IndexKey(i, th.name)].state \in {"missing", "nokey"} ) =>
                CursorsKey(i, th.name) \in DOMAIN fs

\* C14 as claimed: a load that returns a non-nil error returns a Theme that
\* holds no cursors.
C14_ErrorMeansNoCursors ==
    (th.pc = "done" /\ th.err # NoErr) => DOMAIN th.Cursors = {}

-----------------------------------------------------------------------------
(* Decoding one byte buffer twice (SpecTwice): after a Decode has returned, *)
(* the caller hands the same bytes, from offset 0, to a second Decode call, *)
(* through a source of its choice: one that can seek (a bytes.Reader, a     *)
(* file) or one that cannot (the same wrapped in a plain io.Reader).  The   *)
(* two calls then reach their sections by different branches of SeekTo.     *)

\* Decode(r) after an earlier decoder prev: a new decoder struct with n = 0
\* and err = nil, a new bufio.Reader and, in decoder.Decode, a new Cursor;
\* nothing of prev is used.
NewDecode(prev) == DecodeCall

\* The caller keeps what the first call returned and calls Decode again on
\* the same bytes.
DecodeAgain ==
    /\ d.pc = "done"
    /\ ~first.done
    /\ first' = [done |-> TRUE, retNil |-> d.retNil, ret |-> d.ret, err |-> d.err,
                 seekable |-> seekable]
    /\ seekable' \in BOOLEAN
    /\ d' = NewDecode(d)
    /\ UNCHANGED <<bs, file, layout, fault, fs, th, px>>

\* The streams of SpecDecode that carry no damage.
InitTwice ==
    /\ DecodeInit
    /\ fault = NoFault
    /\ bs = BsIdle /\ fs = FsIdle /\ th = ThIdle
    /\ first = FirstIdle /\ px = PxIdle

NextTwice == NextDecode \/ DecodeAgain

SpecTwice == InitTwice /\ [][NextTwice]_vars

\* C15: a second Decode of the same bytes, whether or not its source can
\* seek and whether or not the first one's could, returns what the first
\* returned: it does return, with the same error or none and the same
\* Cursor; for a well-formed buffer both succeed, with equal comments in
\* equal order, equal size keys and per key equal images (nominal size,
\* delay, hotspot, bounds, pixel bytes) in equal order.
C15_DecodeTwiceEqual ==
    (first.done /\ Finished) =>
        /\ d.pc = "done"
        /\ d.retNil = first.retNil
        /\ d.err = first.err
        /\ d.ret = first.ret
        /\ WellFormed(layout) =>
            /\ Succeeded /\ ~first.retNil /\ first.err = NIL
            /\ d.ret.Comments = first.ret.Comments
            /\ DOMAIN d.ret.Images = DOMAIN first.ret.Images
            /\ \A k \in DOMAIN d.ret.Images : d.ret.Images[k] = first.ret.Images[k]

\* Both calls have returned a cursor with a comment and an image, the first
\* after discarding the gaps, the second after real seeks over them.
C15_Witness ==
    /\ first.done /\ Succeeded /\ WellFormed(layout)
    /\ ~first.seekable /\ seekable /\ layout.gap = 24
    /\ d.ret.Comments # <<>>
    /\ DOMAIN d.ret.Images # {}

-----------------------------------------------------------------------------
(* format.go: the ARGB8888 pixel format (SpecFormat).  One alpha-           *)
(* premultiplied colour of 16-bit channels is written to four bytes and     *)
(* read back.  px = [pc, r, g, b, a, data, out]: pc "write", "read", "done" *)
(* or "panicked"; data the four bytes; out the colour Read returns.         *)

\* Alpha of an opaque colour.
Opaque == 65535

\* Channel values: multiples of 0x101 and two values that are not.
ChanValues == {v * 257 : v \in {0, 1, 17, 128, 255}} \cup {4660, 255}

Alphas == {0, 32896, Opaque}

\* r | g | b | a of shifted fields as binary.LittleEndian.PutUint32 lays it
\* out.  For r, g, b <= a every field is below 256 and fills its own byte.
PutUint32(r8, g8, b8, a8) == <<b8, g8, r8, a8>>

\* Write that lays the channels out in the order r, g, b, a (mutant of
\* ARGB8888Write).
ARGB8888Write_RGBA(r, g, b, a) ==
    <<(r * 255) \div a, (g * 255) \div a, (b * 255) \div a, (a * 255) \div 65535>>

\* formatARGB8888.Write for a # 0: the four bytes stored in buf.
ARGB8888Write(r, g, b, a) ==
    PutUint32((r * 255) \div a, (g * 255) \div a, (b * 255) \div a,
              (a * 255) \div 65535)

\* formatARGB8888.Read: n >> 24, n >> 16 & 0xFF, n >> 8 & 0xFF and n & 0xFF
\* are the bytes 4, 3, 2 and 1 of data.
ARGB8888Read(data) ==
    With((data[4] * 65535) \div 255, LAMBDA a :
        <<(data[3] * a) \div 255, (data[2] * a) \div 255, (data[1] * a) \div 255, a>>)

\* formatXRGB8888.Write: the four bytes stored in buf; a is ignored and the
\* top byte is 0xFF.
XRGB8888Write(r, g, b, a) ==
    PutUint32((r * 255) \div 65535, (g * 255) \div 65535, (b * 255) \div 65535, 255)

\* formatXRGB8888.Read: the top byte is ignored and a is 0xFFFF.
XRGB8888Read(data) ==
    <<(data[3] * 65535) \div 255, (data[2] * 65535) \div 255,
      (data[1] * 65535) \div 255, 65535>>

\* The predefined Formats.
Formats == {"ARGB8888", "XRGB8888"}

\* Format.Write panics: the division by a of formatARGB8888.Write with
\* a == 0.
WritePanics(fmt, a) == fmt = "ARGB8888" /\ a = 0

\* Format.Write and Format.Read of the format fmt.
Write(fmt, r, g, b, a) ==
    IF fmt = "ARGB8888" THEN ARGB8888Write(r, g, b, a) ELSE XRGB8888Write(r, g, b, a)

Read(fmt, data) ==
    IF fmt = "ARGB8888" THEN ARGB8888Read(data) ELSE XRGB8888Read(data)

FormatInit ==
    \E fmt \in Formats, a \in Alphas :
        \E r, g, b \in {c \in ChanValues : c <= a} :
            px = [pc |-> "write", Format |-> fmt, r |-> r, g |-> g, b |-> b, a |-> a,
                  data |-> <<0, 0, 0, 0>>, out |-> <<>>]

\* Format.Write(data[:], r, g, b, a) of ARGB8888 or XRGB8888; ARGB8888
\* with a == 0 divides by zero.
FormatWrite ==
    /\ px.pc = "write"
    /\ px' = IF WritePanics(px.Format, px.a)
             THEN [px EXCEPT !.pc = "panicked"]
             ELSE [px EXCEPT !.pc = "read",
                             !.data = Write(px.Format, px.r, px.g, px.b, px.a)]
    /\ UNCHANGED <<bs, file, seekable, layout, fault, d, fs, th, first>>

\* r, g, b, a := Format.Read(data[:])
FormatRead ==
    /\ px.pc = "read"
    /\ px' = [px EXCEPT !.pc = "done", !.out = Read(px.Format, px.data)]
    /\ UNCHANGED <<bs, file, seekable, layout, fault, d, fs, th, first>>

InitFormat ==
    /\ FormatInit
    /\ bs = BsIdle
    /\ file = <<>> /\ seekable = FALSE /\ layout = LayIdle /\ fault = NoFault
    /\ d = DIdle /\ fs = FsIdle /\ th = ThIdle /\ first = FirstIdle

NextFormat == FormatWrite \/ FormatRead

SpecFormat == InitFormat /\ [][NextFormat]_vars

\* r, g and b are of the form v * 0x101 and the colour is opaque.
Replicated(c) == c % 257 = 0

OpaqueReplicated ==
    px.a = Opaque /\ Replicated(px.r) /\ Replicated(px.g) /\ Replicated(px.b)

\* C16: for an opaque colour whose r, g and b are of the form v * 0x101,
\* ARGB8888.Write stores the bytes [b >> 8, g >> 8, r >> 8, 0xFF] and Read
\* of these bytes returns the original (r, g, b, 0xFFFF).
C16_OpaqueRoundTrip ==
    (px.Format = "ARGB8888" /\ OpaqueReplicated) =>
        /\ px.pc \in {"read", "done"} =>
            px.data = <<px.b \div 256, px.g \div 256, px.r \div 256, 255>>
        /\ px.pc = "done" => px.out = <<px.r, px.g, px.b, Opaque>>

\* The colour of TestFormat's kind: three different channels, read back.
C16_Witness ==
    /\ px.pc = "done" /\ px.Format = "ARGB8888" /\ OpaqueReplicated
    /\ px.r = 257 /\ px.g = 4369 /\ px.b = 32896

-----------------------------------------------------------------------------
(* LoadThemeFromDir (SpecTheme).                                            *)

\* C17: LoadThemeFromDir(path) looks at nothing but the directory path: no
\* search root, no index.theme, no inherited theme; the Theme is named by
\* the base name of path; entries that are neither regular files nor
\* symbolic links are not handed to DecodeFile; and when it returns no
\* error, Cursors maps exactly the decodable file names of the directory,
\* each to the cursor of its own file.
C17_FromDirReadsOnlyItsDirectory ==
    th.call = "LoadThemeFromDir" =>
        /\ DOMAIN fs \subseteq {<<th.arg[1], th.arg[2], "cursors">>}
        /\ th.stack = <<>>
        /\ th.name = "cursors"
        /\ th.pc = "done" =>
            /\ \A q \in th.decoded :
                /\ q[1] = th.arg[1] /\ q[2] = th.arg[2]
                /\ KindAt(q) \notin {"absent", "subdir"}
            /\ th.err = NoErr =>
                \A n \in Names :
                    /\ n \in DOMAIN th.Cursors <=>
                            HasGood(th.arg[1], th.arg[2], n)
                    /\ n \in DOMAIN th.Cursors =>
                            th.Cursors[n] = <<th.arg[1], th.arg[2], n>>

\* A directory with a subdirectory and a cursor file was loaded.
C17_Witness ==
    /\ th.call = "LoadThemeFromDir" /\ th.pc = "done" /\ th.err = NoErr
    /\ fs[<<th.arg[1], th.arg[2], "cursors">>].ents["left_ptr"] = "subdir"
    /\ DOMAIN th.Cursors = {"wait"}

-----------------------------------------------------------------------------
(* Further properties of Decode (SpecDecode).                               *)

\* A section the decoder can take in: a comment, or an image that carries
\* the width * height * 4 pixel bytes it declares.
SoundSection(sec) ==
    \/ sec.kind = "comment"
    \/ sec.kind = "image" /\ sec.w < 256 /\ sec.h < 256 /\ sec.pix = 4 * sec.w * sec.h

\* C18 as claimed: when both TOC entries of an undamaged file name the same
\* image section (same type, subtype and position), Decode succeeds and the
\* group of that nominal size holds the image twice.
C18_DuplicateTocDecodedTwice ==
    ( /\ Finished /\ fault = NoFault /\ layout.ord = <<1, 1>>
      /\ layout.secs[1].kind = "image" /\ SoundSection(layout.secs[1]) ) =>
        /\ Succeeded
        /\ layout.secs[1].subtype \in DOMAIN d.ret.Images
        /\ d.ret.Images[layout.secs[1].subtype] =
                <<ExpImage(layout, 1), ExpImage(layout, 1)>>

KnownTypes == {tocTypeComment, tocTypeImage}

\* Decode has returned an error while at a TOC entry of unknown type.
FailedAtUnknown ==
    /\ d.pc = "done" /\ d.err # NIL
    /\ d.i \in 1..Len(d.tocs)
    /\ d.tocs[d.i].Type \notin KnownTypes

\* The 16 bytes at the position of TOC entry toc are there and repeat the
\* entry's type and subtype.
Echoed(toc) ==
    LET p == ToInt(toc.Position)
    IN  /\ Len(file) >= p + 16
        /\ SubSeq(file, p + 5, p + 8) = toc.Type
        /\ SubSeq(file, p + 9, p + 12) = toc.Subtype

\* C19 as claimed: a Decode that fails at a TOC entry of unknown type whose
\* position holds a whole section header fails with the
\* unknown-section-type error, whatever the bytes of that header are.
C19_UnknownTypeGivesUnknownError ==
    (FailedAtUnknown /\ Len(file) >= ToInt(d.tocs[d.i].Position) + 16) =>
        d.err = "UnknownType"

\* C19 amended: a file with a TOC entry of unknown type is never decoded
\* with success, and a Decode that fails at such an entry returns nil with
\* nothing added for the entry; its error is the unknown-section-type error
\* exactly when the section header at the entry's position repeats the
\* entry's type and subtype, and otherwise the seek or read error or the
\* mismatch error of tocHeader that came first.
C19_UnknownTypeNeverDecoded ==
    /\ Succeeded => \A j \in 1..Len(d.tocs) : d.tocs[j].Type \in KnownTypes
    /\ FailedAtUnknown =>
        /\ d.retNil /\ d.ret = EmptyCursor
        /\ Decoded(d) = d.i - 1
        /\ d.err = "UnknownType" <=> Echoed(d.tocs[d.i])
        /\ d.err \in {"UnknownType", "TypeMismatch", "SubtypeMismatch", "EOF"}

\* An entry of unknown type whose section header carries another type.
C19_Witness ==
    FailedAtUnknown /\ d.err = "TypeMismatch" /\ d.i = 2 /\ Decoded(d) = 1

\* C20 as claimed: in a Cursor that Decode returns every key of Images is a
\* positive integer with a non-empty sequence of images, each of which has
\* the key as its NominalSize.
C20_ImagesKeyedByPositiveSize ==
    Succeeded =>
        \A k \in DOMAIN d.ret.Images :
            /\ k > 0
            /\ d.ret.Images[k] # <<>>
            /\ \A j \in 1..Len(d.ret.Images[k]) : d.ret.Images[k][j].NominalSize = k

\* The TOC entries of comment type, in TOC order.
CommentTocs(tocs) == SelectSeq(tocs, LAMBDA t : t.Type = tocTypeComment)

\* CommentSubtypeCopyright, CommentSubtypeLicense, CommentSubtypeOther.
CommentSubtypes == {1, 2, 3}

\* The length word of the comment section of TOC entry toc: the word after
\* the 16-byte section header at the entry's position.
DeclaredLength(toc) ==
    LET p == ToInt(toc.Position) IN ToInt(SubSeq(file, p + 17, p + 20))

\* C21 as claimed: every Comment of a Cursor that Decode returns has a
\* Subtype among Copyright (1), License (2) and Other (3), which is the
\* subtype of its TOC entry, and a text of exactly the declared length.
C21_CommentSubtypeIsKnown ==
    Succeeded =>
        /\ Len(d.ret.Comments) = Len(CommentTocs(d.tocs))
        /\ \A j \in 1..Len(d.ret.Comments) :
            /\ d.ret.Comments[j].Subtype \in CommentSubtypes
            /\ d.ret.Comments[j].Subtype = ToInt(CommentTocs(d.tocs)[j].Subtype)
            /\ Len(d.ret.Comments[j].Comment) = DeclaredLength(CommentTocs(d.tocs)[j])

-----------------------------------------------------------------------------
(* LoadTheme of a theme that is not installed (SpecTheme).                  *)

\* The roots at which the load has looked for the index.theme of theme x.
RootsTried(x) == {i \in 1..Len(Roots) : IndexKey(i, x) \in DOMAIN fs}

\* Theme x has no directory under any root the load has looked at: the open
\* of its index.theme failed there with a not-exist error.
NowhereFound(x) ==
    \A i \in RootsTried(x) : fs[IndexKey(i, x)].state = "missing"

\* C22: LoadTheme looks up the empty name as "default"; and a LoadTheme that
\* has returned, having found no directory of the theme under any root it
\* tried, has tried every root and nothing else, and has returned a nil
\* error and a Theme with an empty Cursors map.
C22_UnknownThemeLoadsEmpty ==
    th.call = "LoadTheme" =>
        /\ th.name = (IF th.arg = "" THEN "default" ELSE th.arg)
        /\ th.stack # <<>> => th.stack[1].theme = th.name
        /\ (th.pc = "done" /\ NowhereFound(th.name)) =>
            /\ RootsTried(th.name) = 1..Len(Roots)
            /\ DOMAIN fs = {IndexKey(i, th.name) : i \in 1..Len(Roots)}
            /\ th.err = NoErr
            /\ DOMAIN th.Cursors = {}
            /\ th.decoded = {}

\* LoadTheme("") has returned after missing "default" under both roots.
C22_Witness ==
    /\ th.call = "LoadTheme" /\ th.arg = "" /\ th.pc = "done"
    /\ RootsTried("default") = 1..Len(Roots)
    /\ NowhereFound("default")
    /\ th.err = NoErr /\ DOMAIN th.Cursors = {}

-----------------------------------------------------------------------------
(* Pixel buffers and reader positions (SpecDecode).                         *)

\* The TOC entries of image type and nominal size `size`, in TOC order: the
\* entries the images under key `size` were decoded from.
ImageTocs(tocs, size) ==
    SelectSeq(tocs, LAMBDA t : t.Type = tocTypeImage /\ ToInt(t.Subtype) = size)

\* The width and height words of the image section of TOC entry toc: the
\* two words after the 16-byte section header at the entry's position.
DeclaredRect(toc) ==
    LET p == ToInt(toc.Position)
    IN  <<ToInt(SubSeq(file, p + 17, p + 20)), ToInt(SubSeq(file, p + 21, p + 24))>>

\* The number of whole 4-byte pixels a buffer of len bytes holds.
PixelsHeld(len) == len \div 4

\* C23 as claimed: every image of a Cursor that Decode returns has the
\* bounds (0,0)-(w,h) of the width and height words of its section and a
\* pixel buffer of exactly w*h*4 bytes, the product taken in the integers:
\* the buffer is a whole number of pixels and holds w*h of them.
C23_PixelBufferIsExactProduct ==
    Succeeded =>
        \A k \in DOMAIN d.ret.Images :
            /\ Len(d.ret.Images[k]) = Len(ImageTocs(d.tocs, k))
            /\ \A j \in 1..Len(d.ret.Images[k]) :
                LET img == d.ret.Images[k][j]
                IN  /\ img.Rect = DeclaredRect(ImageTocs(d.tocs, k)[j])
                    /\ Len(img.Pix) % 4 = 0
                    /\ PixelsHeld(Len(img.Pix)) = img.Rect[1] * img.Rect[2]

\* The absolute stream offset of the next byte the reader hands out: the
\* offset of the underlying stream less the bytes still in the buffer.
NextOffset(r) == r.upos - r.buffered

\* The decode is under way or has succeeded: no read, discard or seek has
\* failed.
Unfailed == d.pc \in {"header", "seek", "section"} \/ Succeeded

\* C24: as long as no read, discard or seek has failed, the counter n is the
\* absolute stream offset of the next byte the decoder will read; and when
\* SeekTo(p) has succeeded, n = p and the next word read, if there is one,
\* is the four bytes at offset p, whether the gap was discarded or a real
\* seek was issued.
C24_PositionIsStreamOffset ==
    /\ Unfailed => d.r.n = NextOffset(d.r)
    /\ d.pc = "section" =>
        LET p == ToInt(d.tocs[d.i].Position)
        IN  /\ d.r.n = p
            /\ uint32(file, d.r).err = NIL =>
                    uint32(file, d.r).data = SubSeq(file, p + 1, p + 4)

\* A real seek was issued for the first section: the source is seekable and
\* the gap is larger than the buffer, which is empty afterwards.
C24_Witness ==
    /\ seekable /\ layout.gap = 24 /\ fault = NoFault
    /\ d.pc = "section" /\ d.i = 1
    /\ d.r.n = ToInt(d.tocs[1].Position)
    /\ d.r.buffered = 0 /\ d.r.upos = d.r.n
    /\ uint32(file, d.r).err = NIL

-----------------------------------------------------------------------------
(* format/image.go: At and Set on the images of a decoded Cursor            *)
(* (SpecImage).  An image is [Rect, Pix] with Rect = <<w, h>> standing for  *)
(* image.Rect(0, 0, w, h), as decoder.image builds it; a colour is the      *)
(* tuple <<r, g, b, a>> its RGBA method returns; px records the last At:    *)
(* [pc |-> "at", data, out], or [pc |-> "panicked"] after a panic.          *)

\* The Format of every image that decoder.image builds.
ImageFormat == "ARGB8888"

\* Format.Size(): four bytes per pixel in both formats.
Size(fmt) == 4

\* image.Point{x, y}.In(img.Rect) for a rectangle with Min = (0, 0).
In(x, y, rect) == 0 <= x /\ x < rect[1] /\ 0 <= y /\ y < rect[2]

\* Image.stride: size * img.Rect.Dx().
stride(rect, size) == size * rect[1]

\* Image.pixOffset with Rect.Min = (0, 0).
pixOffset(x, y, str, size) == (str * y) + (x * size)

\* Model.Convert: the bytes Format.Write puts in the new Color's Data.
Convert(fmt, c) == Write(fmt, c[1], c[2], c[3], c[4])

\* img.Pix[i : i+size : i+size] is out of range (the buffers of decoder.image
\* have cap = len).
SliceOutOfRange(pix, i, size) == i + size > Len(pix)

\* Image.Set(x, y, c): [pix, panic].  Outside the bounds nothing happens;
\* inside, Convert divides by zero for an ARGB8888 colour with a == 0, the
\* slice expression panics when the buffer is too short, and otherwise the
\* pixel's bytes are overwritten.
Set(fmt, rect, pix, x, y, c) ==
    IF ~In(x, y, rect)
    THEN [pix |-> pix, panic |-> FALSE]
    ELSE With(pixOffset(x, y, stride(rect, Size(fmt)), Size(fmt)), LAMBDA i :
             IF WritePanics(fmt, c[4]) \/ SliceOutOfRange(pix, i, Size(fmt))
             THEN [pix |-> pix, panic |-> TRUE]
             ELSE [pix |-> [q \in 1..Len(pix) |->
                               IF q > i /\ q <= i + Size(fmt)
                               THEN Convert(fmt, c)[q - i]
                               ELSE pix[q]],
                   panic |-> FALSE])

\* Image.At(x, y): [data, panic], data being the bytes of the Color
\* returned: zeros outside the bounds, the pixel's bytes inside.
At(fmt, rect, pix, x, y) ==
    IF ~In(x, y, rect)
    THEN [data |-> <<0, 0, 0, 0>>, panic |-> FALSE]
    ELSE With(pixOffset(x, y, stride(rect, Size(fmt)), Size(fmt)), LAMBDA i :
             IF SliceOutOfRange(pix, i, Size(fmt))
             THEN [data |-> <<>>, panic |-> TRUE]
             ELSE [data |-> SubSeq(pix, i + 1, i + Size(fmt)), panic |-> FALSE])

\* The colours handed to Set: opaque, half transparent, fully transparent.
Colors == {<<4369, 8738, 13107, 65535>>, <<255, 0, 0, 32896>>, <<0, 0, 0, 0>>}

\* The points asked for: the first pixel, its right neighbour, the pixel
\* below it.
Points == {<<0, 0>>, <<1, 0>>, <<0, 1>>}

\* img.Set(x, y, c) on the image in slot s of the Cursor Decode returned.
\* The Cursor holds pointers to its images: the local cursor of Decode and
\* the returned one are the same images.
ImageSet ==
    /\ Succeeded
    /\ px.pc # "panicked"
    /\ \E s \in ImageSlots(d.ret.Images), p \in Points, c \in Colors :
        LET img == d.ret.Images[s[1]][s[2]]
            res == Set(ImageFormat, img.Rect, img.Pix, p[1], p[2], c)
        IN  IF res.panic
            THEN px' = [pc |-> "panicked"] /\ d' = d
            ELSE /\ d' = [d EXCEPT !.ret.Images[s[1]][s[2]].Pix = res.pix,
                                   !.Images[s[1]][s[2]].Pix = res.pix]
                 /\ px' = px
    /\ UNCHANGED <<bs, file, seekable, layout, fault, fs, th, first>>

\* c := img.At(x, y); c.RGBA() on the image in slot s.
ImageAt ==
    /\ Succeeded
    /\ px.pc # "panicked"
    /\ \E s \in ImageSlots(d.ret.Images), p \in Points :
        LET img == d.ret.Images[s[1]][s[2]]
            res == At(ImageFormat, img.Rect, img.Pix, p[1], p[2])
        IN  px' = IF res.panic
                  THEN [pc |-> "panicked"]
                  ELSE [pc |-> "at", data |-> res.data,
                        out |-> Read(ImageFormat, res.data)]
    /\ UNCHANGED <<bs, file, seekable, layout, fault, d, fs, th, first>>

\* Decode of an undamaged stream, then At and Set on the images returned.
InitImage ==
    /\ DecodeInit
    /\ fault = NoFault
    /\ bs = BsIdle /\ fs = FsIdle /\ th = ThIdle
    /\ first = FirstIdle /\ px = PxIdle

NextImage == NextDecode \/ ImageSet \/ ImageAt

SpecImage == InitImage /\ [][NextImage]_vars

====
